---- MODULE Spec2Model ----
(***************************************************************************)
(* FIA document bot: the batch pipeline of main.py (listing scan, identity *)
(* derivation, posted-id state file, image push, two-phase Instagram       *)
(* publish) as a state machine over repeated runs of main().               *)
(***************************************************************************)
EXTENDS Integers, Sequences, FiniteSets, TLC

VARIABLES
    listing,      \* the HTML served at each SEASON_URLS entry: a sequence of anchors
    env_ok,       \* IG_USER_ID and IG_ACCESS_TOKEN and REPO are all set (this run)
    state_file,   \* posted_ids.json on local disk
    out_files,    \* rendered images under out/
    head,         \* local git HEAD: the committed tree
    remote,       \* origin/BRANCH: the pushed tree, what raw.githubusercontent serves
    pc,           \* position of the running main(), "idle" between runs
    posted_ids,   \* main(): posted_ids
    candidates,   \* main(): candidates
    idx,          \* index of the current doc / item of the running for loop
    new_images,   \* main(): new_images
    new_ids,      \* main(): new_ids
    scan_in,      \* arguments and fetch outcomes of the last find_latest_docs call
    runNo,        \* number of runs of main() started so far
    outcome,      \* how the last run ended, or that it is running
    start_file,   \* posted_ids.json as it was when the run started
    prev,         \* the run before this one, when it ran to the end of main()
    effects,      \* side effects performed by the current run
    status,       \* per candidate of the current run: how its processing went
    staged,       \* identities whose stage phase was attempted in this run
    committed,    \* identities whose commit phase succeeded in this run
    post_calls,   \* the calls of post_to_instagram in this run, in order
    pubCount,     \* per identity: successful commit phases over all runs
    bot           \* fia_instagram_bot.py: posted.txt, the listing, the running main()

vars == <<listing, env_ok, state_file, out_files, head, remote, pc, posted_ids,
          candidates, idx, new_images, new_ids, scan_in, runNo, outcome,
          start_file, prev, effects, status, staged, committed, post_calls,
          pubCount, bot>>

----------------------------------------------------------------------------
\* Bounds of the model

MaxRuns == 2
NDocs == 3
MaxAnchors == 3

Docs == 1..NDocs

----------------------------------------------------------------------------
\* Listing pages

SEASON_URLS == <<"season-2025-2071", "season-2024-2043">>

\* An anchor's href: empty, a link that is no document page, or a link to the
\* detail page of a document written relative, absolute or with a fragment.
DocHrefs == [kind : {"doc"}, doc : Docs, style : {"rel", "abs", "frag"}]
NoHref == [kind |-> "empty", doc |-> 0, style |-> "rel"]
OtherHref == [kind |-> "other", doc |-> 0, style |-> "rel"]

\* The anchors pages are built from: every document link with a text, and
\* one each of a link without text, an anchor without href, another link
ScanAnchors ==
    [href : DocHrefs, text : {"Doc"}]
        \cup {[href |-> [kind |-> "doc", doc |-> 1, style |-> "rel"], text |-> ""],
              [href |-> NoHref, text |-> "Doc"],
              [href |-> OtherHref, text |-> "Doc"]}

\* urljoin(base_url, href): a relative and an absolute href of the same page
\* give the same URL; a fragment is kept. Both season URLs share one host.
urljoin(base_url, href) == [doc |-> href.doc, frag |-> href.style = "frag"]

Urls == [doc : Docs, frag : BOOLEAN]

\* hashlib.sha256(url).hexdigest()[:16], injective on the URLs of the model
sha16(url) == 2 * url.doc + (IF url.frag THEN 1 ELSE 0)

Uids == {sha16(u) : u \in Urls}

Range(s) == {s[i] : i \in DOMAIN s}

RECURSIVE SortedSeq(_)
SortedSeq(S) ==
    IF S = {} THEN <<>>
    ELSE LET m == CHOOSE x \in S : \A y \in S : x <= y
         IN <<m>> \o SortedSeq(S \ {m})

\* Mutant: the state file is never read
load_state_ignored(f) == {}

\* load_state(): the set of the JSON list, or the empty set without a file
load_state(f) == IF f.exists THEN Range(f.content) ELSE {}

\* Mutant: only the identities rendered in this run are written
save_state_new_ids(ids) == [exists |-> TRUE, content |-> SortedSeq(Range(new_ids))]

\* Mutant: only the identities published in this run are written
save_state_committed(ids) == [exists |-> TRUE, content |-> SortedSeq(committed)]

\* Mutant: every identity rendered in this run is written as posted
save_state_with_new_ids(ids) ==
    [exists |-> TRUE, content |-> SortedSeq(ids \cup Range(new_ids))]

\* save_state(posted_ids): the sorted JSON list
save_state(ids) == [exists |-> TRUE, content |-> SortedSeq(ids)]

\* parse_listing_for_docs, first loop: the items of the qualifying anchors
RECURSIVE listing_items(_, _)
listing_items(page, base_url) ==
    IF page = <<>> THEN <<>>
    ELSE LET a == Head(page)
             rest == listing_items(Tail(page), base_url)
         IN IF a.href.kind = "empty" \/ a.text = "" THEN rest
            ELSE IF a.href.kind = "doc"
                 THEN <<[title |-> a.text,
                         doc_page_url |-> urljoin(base_url, a.href)]>> \o rest
                 ELSE rest

\* Mutant: nothing is deduplicated
dedup_none(items, seen) == items

\* Mutant: of repeated references the last one is kept, not the first
RECURSIVE dedup_keep_last(_, _)
dedup_keep_last(items, seen) ==
    IF items = <<>> THEN <<>>
    ELSE LET it == Head(items)
             later == {Tail(items)[k].doc_page_url : k \in DOMAIN Tail(items)}
         IN IF it.doc_page_url \in later
            THEN dedup_keep_last(Tail(items), seen)
            ELSE <<it>> \o dedup_keep_last(Tail(items), seen)

\* parse_listing_for_docs, second loop: deduplicate by URL
RECURSIVE dedup_from(_, _)
dedup_from(items, seen) ==
    IF items = <<>> THEN <<>>
    ELSE LET it == Head(items)
         IN IF it.doc_page_url \notin seen
            THEN <<it>> \o dedup_from(Tail(items), seen \cup {it.doc_page_url})
            ELSE dedup_from(Tail(items), seen)

parse_listing_for_docs(page, base_url) ==
    dedup_from(listing_items(page, base_url), {})

Take(s, n) == SubSeq(s, 1, IF Len(s) < n THEN Len(s) ELSE n)

\* Mutant: the try block encloses the loop, a failed fetch ends the scan
RECURSIVE find_from_abort(_, _, _, _)
find_from_abort(i, pages, max_docs, ok) ==
    IF i > Len(SEASON_URLS) \/ ~ok[i] THEN <<>>
    ELSE LET docs == parse_listing_for_docs(pages[i], SEASON_URLS[i])
         IN IF docs # <<>> THEN Take(docs, max_docs)
            ELSE find_from_abort(i + 1, pages, max_docs, ok)

\* find_latest_docs(max_docs): ok[i] says whether fetching and parsing
\* SEASON_URLS[i] went through without an exception.
RECURSIVE find_from(_, _, _, _)
find_from(i, pages, max_docs, ok) ==
    IF i > Len(SEASON_URLS) THEN <<>>
    ELSE LET docs == IF ok[i] THEN parse_listing_for_docs(pages[i], SEASON_URLS[i])
                     ELSE <<>>
         IN IF docs # <<>> THEN Take(docs, max_docs)
            ELSE find_from(i + 1, pages, max_docs, ok)

find_latest_docs(pages, max_docs, ok) == find_from(1, pages, max_docs, ok)

FetchOutcomes == [1..Len(SEASON_URLS) -> BOOLEAN]

----------------------------------------------------------------------------
\* git

\* The tree git add -A stages: everything under out/ plus posted_ids.json
WorkTree == [files |-> out_files, state |-> state_file]

GitRuns == [add : BOOLEAN, commit : BOOLEAN, push : BOOLEAN]

\* Mutant: git push runs with check=False as well
git_push_unchecked(g) ==
    IF ~g.add THEN [raised |-> TRUE, head |-> head, remote |-> remote]
    ELSE LET h == IF g.commit /\ WorkTree # head THEN WorkTree ELSE head
         IN [raised |-> FALSE, head |-> h,
             remote |-> IF g.push THEN h ELSE remote]

\* git_commit_and_push: config and add run with check=True, commit with
\* check=False (it also fails when nothing changed), push with check=True.
\* g gives the exit status of each subprocess.
git_commit_and_push(g) ==
    IF ~g.add THEN [raised |-> TRUE, head |-> head, remote |-> remote]
    ELSE LET h == IF g.commit /\ WorkTree # head THEN WorkTree ELSE head
         IN IF g.push THEN [raised |-> FALSE, head |-> h, remote |-> h]
            ELSE [raised |-> TRUE, head |-> h, remote |-> remote]

\* png_path = OUT_DIR / f"{base_name}.png", base_name ending in the uid. The
\* PDF saved next to it is never read again after rendering and is left out.
png_path(uid) == <<"out", uid, "png">>

----------------------------------------------------------------------------
\* main()

\* main(): find_latest_docs(max_docs=12)
MAX_DOCS == 12

NoFile == [exists |-> FALSE, content |-> <<>>]
EmptyTree == [files |-> {}, state |-> NoFile]
NoScan == [max_docs |-> 0, ok |-> [i \in 1..Len(SEASON_URLS) |-> FALSE]]

\* fia_instagram_bot.py is not running and has nothing on disk
NoBot == [rows |-> <<>>, posted_txt |-> <<>>, pc |-> "idle", posted |-> {},
          docs |-> <<>>, cur |-> 0, runs |-> 0, clean |-> TRUE,
          run_published |-> 0, published |-> <<>>]

DocAnchor(d) ==
    [href |-> [kind |-> "doc", doc |-> d, style |-> "rel"], text |-> "Doc"]
PageOf(n) == [i \in 1..n |-> DocAnchor(i)]

\* A page that links its first document a second time, by an absolute href
RepeatPage ==
    PageOf(2) \o <<[href |-> [kind |-> "doc", doc |-> 1, style |-> "abs"],
                    text |-> "Doc"]>>

\* The listings the runs are checked against: the current season lists three
\* documents, or is empty and the previous season lists two (one of them
\* twice), or both are empty.
Listings ==
    { <<PageOf(3), PageOf(1)>>,
      <<PageOf(0), RepeatPage>>,
      <<PageOf(0), PageOf(0)>> }

NoRun == [saved |-> FALSE, candidates |-> <<>>, all_posted |-> FALSE,
          failed |-> {}]

Init ==
    /\ listing \in Listings
    /\ env_ok = TRUE
    /\ state_file = NoFile
    /\ out_files = {}
    /\ head = EmptyTree
    /\ remote = EmptyTree
    /\ pc = "idle"
    /\ posted_ids = {}
    /\ candidates = <<>>
    /\ idx = 0
    /\ new_images = <<>>
    /\ new_ids = <<>>
    /\ scan_in = NoScan
    /\ runNo = 0
    /\ outcome = [kind |-> "none", at |-> "none"]
    /\ start_file = NoFile
    /\ prev = NoRun
    /\ effects = {}
    /\ status = <<>>
    /\ staged = {}
    /\ committed = {}
    /\ post_calls = <<>>
    /\ pubCount = [u \in Uids |-> 0]
    /\ bot = NoBot

\* The identities the run loaded from the state file
StartIds == load_state(start_file)

\* Every candidate of the run was found posted or was published
AllPosted == \A i \in DOMAIN status : status[i] \in {"already_posted", "Committed"}

\* The identities of the candidates whose processing failed in the run
FailedIds ==
    {sha16(candidates[i].doc_page_url) :
        i \in {j \in DOMAIN status :
                  status[j] \in {"ResolutionFailed", "FetchError", "RenderError",
                                 "PublishStageFailed", "PublishCommitFailed"}}}

\* The run went through save_state and the final push and returned
Saved == outcome = [kind |-> "returned", at |-> "done"]

Running == [kind |-> "running", at |-> "none"]
Returned(at) == [kind |-> "returned", at |-> at]
Raised(at) == [kind |-> "raised", at |-> at]

\* The exit status of the python process for an ended run
ExitCode == IF outcome.kind = "raised" THEN 1 ELSE 0

disk == <<state_file, out_files, head, remote>>
locals == <<posted_ids, candidates, idx, new_images, new_ids>>
history == <<start_file, prev, staged, committed, post_calls, pubCount>>

\* Mutant: the assert is gone
assert_skipped(ok) == TRUE

\* main() line 176: the assert passes when all three settings are set
assert_config(ok) == ok

\* main() lines 175-179: the assert on the configuration, load_state, mkdir
main_start ==
    /\ pc = "idle"
    /\ runNo < MaxRuns
    /\ runNo' = runNo + 1
    /\ env_ok' \in BOOLEAN
    /\ start_file' = state_file
    /\ prev' = IF Saved
               THEN [saved |-> TRUE, candidates |-> candidates,
                     all_posted |-> AllPosted, failed |-> FailedIds]
               ELSE NoRun
    /\ scan_in' = NoScan
    /\ candidates' = <<>>
    /\ idx' = 0
    /\ new_images' = <<>>
    /\ new_ids' = <<>>
    /\ status' = <<>>
    /\ staged' = {}
    /\ committed' = {}
    /\ post_calls' = <<>>
    /\ IF assert_config(env_ok')
       THEN /\ posted_ids' = load_state(state_file)
            /\ effects' = {"load_state"}
            /\ pc' = "scan"
            /\ outcome' = Running
       ELSE /\ posted_ids' = {}
            /\ effects' = {}
            /\ pc' = "idle"
            /\ outcome' = Raised("assert")
    /\ UNCHANGED <<bot, listing, disk, pubCount>>

\* Mutant: an empty scan ends the process with an error
no_documents_raise == Raised("no_documents")

\* main() lines 182-184: an empty scan is logged and main() returns
no_documents_return == Returned("no_documents")

\* main() lines 181-187: find_latest_docs(max_docs=12) and the early return
main_scan ==
    /\ pc = "scan"
    /\ \E ok \in FetchOutcomes :
         /\ scan_in' = [max_docs |-> MAX_DOCS, ok |-> ok]
         /\ candidates' = find_latest_docs(listing, MAX_DOCS, ok)
    /\ effects' = effects \cup {"fetch_listing"}
    /\ status' = [i \in 1..Len(candidates') |-> "discovered"]
    /\ IF candidates' = <<>>
       THEN /\ pc' = "idle"
            /\ outcome' = no_documents_return
            /\ idx' = 0
       ELSE /\ pc' = "prepare"
            /\ outcome' = outcome
            /\ idx' = 1
    /\ UNCHANGED <<bot, listing, env_ok, disk, posted_ids, new_images, new_ids,
                   runNo, history>>

PrepareResults == {"ResolutionFailed", "FetchError", "RenderError", "Rendered"}

\* The images one pass of the try block leaves under out/
files_after(uid, r) == IF r = "Rendered" THEN {png_path(uid)} ELSE {}

effects_of(r) ==
    CASE r = "ResolutionFailed" -> {"fetch_detail"}
      [] r = "FetchError" -> {"fetch_detail", "download"}
      [] OTHER -> {"fetch_detail", "download", "render"}

\* Mutant: the first failure ends the loop
except_break(i) == Len(candidates) + 1

\* main() lines 212-213: the except clause logs and the loop goes on
except_continue(i) == i + 1

\* Mutant: the membership check is gone
already_posted_unchecked(uid) == FALSE

\* main() lines 191-192: the candidate is skipped when its identity is in
\* the posted set
already_posted(uid) == uid \in posted_ids

\* main() lines 189-213: one iteration of the first for loop
main_prepare ==
    /\ pc = "prepare"
    /\ idx <= Len(candidates)
    /\ LET doc == candidates[idx]
           uid == sha16(doc.doc_page_url)
       IN IF already_posted(uid)
          THEN /\ status' = [status EXCEPT ![idx] = "already_posted"]
               /\ idx' = idx + 1
               /\ UNCHANGED <<out_files, new_images, new_ids, effects>>
          ELSE \E r \in PrepareResults :
                 /\ status' = [status EXCEPT ![idx] = r]
                 /\ out_files' = out_files \cup files_after(uid, r)
                 /\ effects' = effects \cup effects_of(r)
                 /\ IF r = "Rendered"
                    THEN /\ new_images' = Append(new_images,
                                              [uid |-> uid, title |-> doc.title])
                         /\ new_ids' = Append(new_ids, uid)
                         /\ idx' = idx + 1
                    ELSE /\ idx' = except_continue(idx)
                         /\ UNCHANGED <<new_images, new_ids>>
    /\ UNCHANGED <<bot, listing, env_ok, state_file, head, remote, pc, posted_ids,
                   candidates, scan_in, runNo, outcome, history>>

\* main() lines 215-217: nothing was rendered
main_nothing_new ==
    /\ pc = "prepare"
    /\ idx > Len(candidates)
    /\ new_images = <<>>
    /\ pc' = "idle"
    /\ outcome' = Returned("nothing_new")
    /\ UNCHANGED <<bot, listing, env_ok, disk, locals, scan_in, runNo, history,
                   effects, status>>

\* main() lines 219-223: commit and push the images
main_push_images ==
    /\ pc = "prepare"
    /\ idx > Len(candidates)
    /\ new_images # <<>>
    /\ \E g \in GitRuns :
         LET res == git_commit_and_push(g)
         IN /\ head' = res.head
            /\ remote' = res.remote
            /\ IF res.raised
               THEN /\ pc' = "idle"
                    /\ outcome' = Raised("push_images")
                    /\ idx' = idx
               ELSE /\ pc' = "stage"
                    /\ outcome' = outcome
                    /\ idx' = 1
            /\ effects' = effects \cup {"git_push"}
                              \cup (IF g.add /\ g.push THEN {}
                                    ELSE {"images_push_failed"})
    /\ UNCHANGED <<bot, listing, env_ok, state_file, out_files, posted_ids,
                   candidates, new_images, new_ids, scan_in, runNo, history,
                   status>>

CandidateOf(uid) ==
    CHOOSE i \in DOMAIN candidates : sha16(candidates[i].doc_page_url) = uid

StageResults == {"http_error", "no_id", "id"}

\* Mutant: the creation id is not checked, only the HTTP status is
creation_id_unchecked(r) == r # "http_error"

\* post_to_instagram lines 163-166: raise_for_status passed and the
\* response holds an id
has_creation_id(r) == r = "id"

\* Mutant: the exception of post_to_instagram leaves main()
post_failed_raise == [pc |-> "idle", outcome |-> Raised("publish")]

\* main() lines 240-241: the except clause logs and the loop goes on
post_failed == [pc |-> "stage", outcome |-> outcome]

\* post_to_instagram lines 155-166: the stage phase for new_images[idx]
post_stage ==
    /\ pc = "stage"
    /\ idx <= Len(new_images)
    /\ LET uid == new_images[idx].uid
       IN /\ staged' = staged \cup {uid}
          /\ \E r \in StageResults :
               /\ post_calls' = Append(post_calls,
                                       [uid |-> uid, has_id |-> r = "id",
                                        commit |-> "none"])
               /\ IF has_creation_id(r)
                  THEN /\ pc' = "commit"
                       /\ outcome' = outcome
                       /\ idx' = idx
                       /\ status' = [status EXCEPT
                                       ![CandidateOf(uid)] = "Staged"]
                  ELSE /\ pc' = post_failed.pc
                       /\ outcome' = post_failed.outcome
                       /\ idx' = idx + 1
                       /\ status' = [status EXCEPT
                                       ![CandidateOf(uid)] = "PublishStageFailed"]
    /\ effects' = effects \cup {"stage"}
    /\ UNCHANGED <<bot, listing, env_ok, disk, posted_ids, candidates, new_images,
                   new_ids, scan_in, runNo, start_file, prev, committed,
                   pubCount>>

\* post_to_instagram lines 168-172 and main() lines 239-241: the commit
\* phase, then posted_ids.add on success
post_commit ==
    /\ pc = "commit"
    /\ LET uid == new_images[idx].uid
       IN \E ok \in BOOLEAN :
            /\ post_calls' = [post_calls EXCEPT ![Len(post_calls)].commit =
                                 IF ok THEN "ok" ELSE "failed"]
            /\ IF ok
               THEN /\ pubCount' = [pubCount EXCEPT ![uid] = @ + 1]
                    /\ committed' = committed \cup {uid}
                    /\ posted_ids' = posted_ids \cup {uid}
                    /\ status' = [status EXCEPT
                                    ![CandidateOf(uid)] = "Committed"]
                    /\ pc' = "stage"
                    /\ outcome' = outcome
               ELSE /\ status' = [status EXCEPT
                                    ![CandidateOf(uid)] = "PublishCommitFailed"]
                    /\ pc' = post_failed.pc
                    /\ outcome' = post_failed.outcome
                    /\ UNCHANGED <<pubCount, committed, posted_ids>>
    /\ idx' = idx + 1
    /\ effects' = effects \cup {"commit"}
    /\ UNCHANGED <<bot, listing, env_ok, disk, candidates, new_images, new_ids,
                   scan_in, runNo, start_file, prev, staged>>

\* main() line 243: save_state(posted_ids) after the publish loop
main_save_state ==
    /\ pc = "stage"
    /\ idx > Len(new_images)
    /\ state_file' = save_state(posted_ids)
    /\ effects' = effects \cup {"save_state"}
    /\ pc' = "push_state"
    /\ UNCHANGED <<bot, listing, env_ok, out_files, head, remote, locals, scan_in,
                   runNo, outcome, history, status>>

\* main() line 245: commit and push posted_ids.json
main_push_state ==
    /\ pc = "push_state"
    /\ \E g \in GitRuns :
         LET res == git_commit_and_push(g)
         IN /\ head' = res.head
            /\ remote' = res.remote
            /\ outcome' = IF res.raised THEN Raised("push_state")
                          ELSE Returned("done")
    /\ pc' = "idle"
    /\ effects' = effects \cup {"git_push"}
    /\ UNCHANGED <<bot, listing, env_ok, state_file, out_files, locals, scan_in,
                   runNo, history, status>>

\* The process is killed between two steps of a run (job timeout, runner
\* loss): memory is gone, the disk and the platform keep what they have.
crash ==
    /\ outcome.kind = "running"
    /\ pc' = "idle"
    /\ outcome' = [kind |-> "crashed", at |-> pc]
    /\ UNCHANGED <<bot, listing, env_ok, disk, locals, scan_in, runNo, history,
                   effects, status>>

Next ==
    \/ main_start
    \/ main_scan
    \/ main_prepare
    \/ main_nothing_new
    \/ main_push_images
    \/ post_stage
    \/ post_commit
    \/ main_save_state
    \/ main_push_state
    \/ crash

Spec == Init /\ [][Next]_vars

----------------------------------------------------------------------------
\* find_latest_docs on its own: any two pages, any max_docs, any fetch outcome

\* The pages of at most n anchors
RECURSIVE PagesUpTo(_)
PagesUpTo(n) ==
    IF n = 0 THEN {<<>>}
    ELSE LET shorter == PagesUpTo(n - 1)
         IN shorter \cup {Append(p, a) : p \in shorter, a \in ScanAnchors}

\* max_docs as passed by callers: small values and main()'s
MaxDocsArgs == {1, 2, MAX_DOCS}

InitScan ==
    /\ listing \in {<<p, q>> : p \in PagesUpTo(MaxAnchors),
                               q \in {PageOf(0), PageOf(2)}}
    /\ env_ok = TRUE
    /\ state_file = NoFile
    /\ out_files = {}
    /\ head = EmptyTree
    /\ remote = EmptyTree
    /\ pc = "find_latest_docs"
    /\ posted_ids = {}
    /\ candidates = <<>>
    /\ idx = 0
    /\ new_images = <<>>
    /\ new_ids = <<>>
    /\ scan_in = NoScan
    /\ runNo = 0
    /\ outcome = [kind |-> "none", at |-> "none"]
    /\ start_file = NoFile
    /\ prev = NoRun
    /\ effects = {}
    /\ status = <<>>
    /\ staged = {}
    /\ committed = {}
    /\ post_calls = <<>>
    /\ pubCount = [u \in Uids |-> 0]
    /\ bot = NoBot

\* One call of find_latest_docs(max_docs)
call_find_latest_docs ==
    /\ pc = "find_latest_docs"
    /\ \E max_docs \in MaxDocsArgs, ok \in FetchOutcomes :
         /\ scan_in' = [max_docs |-> max_docs, ok |-> ok]
         /\ candidates' = find_latest_docs(listing, max_docs, ok)
    /\ pc' = "found"
    /\ UNCHANGED <<bot, listing, env_ok, disk, posted_ids, idx, new_images, new_ids,
                   runNo, outcome, history, effects, status>>

\* One call of parse_listing_for_docs on the first page
call_parse_listing_for_docs ==
    /\ pc = "find_latest_docs"
    /\ candidates' = parse_listing_for_docs(listing[1], SEASON_URLS[1])
    /\ pc' = "parsed"
    /\ UNCHANGED <<bot, listing, env_ok, disk, posted_ids, idx, new_images, new_ids,
                   scan_in, runNo, outcome, history, effects, status>>

NextScan ==
    \/ call_find_latest_docs
    \/ call_parse_listing_for_docs

SpecScan == InitScan /\ [][NextScan]_vars

----------------------------------------------------------------------------
\* Properties

\* The identity of the candidate at position i of the run
UidAt(i) == sha16(candidates[i].doc_page_url)

\* The run has ended by returning or raising, not by being killed
Ended == outcome.kind \in {"returned", "raised"}

PrepareFailed == {"ResolutionFailed", "FetchError", "RenderError"}
PublishFailed == {"PublishStageFailed", "PublishCommitFailed"}

\* C1: over any sequence of runs against the same listing, crashed runs
\* included, no identity has more than one successful commit phase.
C1_PublishedAtMostOnce == \A u \in Uids : pubCount[u] <= 1

\* C2 as stated: after a first run that ran to the end of main() and so
\* persisted its state file, a second run with the same candidates attempts
\* no publish at all.
C2_SecondRunPublishesNothing ==
    (runNo >= 2 /\ prev.saved /\ prev.candidates = candidates) => staged = {}

\* C2 as amended: a run never attempts to publish an identity that is in the
\* state file it started from, and a run that follows a run to the end of
\* main() in which every candidate was already posted or published, with
\* the same candidates, attempts no publish at all.
C2_Idempotent ==
    /\ staged \cap StartIds = {}
    /\ (runNo >= 2 /\ prev.saved /\ prev.all_posted /\ prev.candidates = candidates)
         => staged = {}

C2_Witness ==
    /\ runNo = 2
    /\ prev.saved /\ prev.all_posted
    /\ Len(candidates) = 3
    /\ prev.candidates = candidates
    /\ outcome = Returned("nothing_new")
    /\ \A i \in DOMAIN status : status[i] = "already_posted"

\* C3: whenever the publish of a later item is about to be attempted, and
\* whenever the run has been killed, every identity published so far in this
\* run is in the state file on disk.
C3_FlushedAfterEachPublish ==
    ((pc = "stage" /\ idx <= Len(new_images)) \/ outcome.kind = "crashed")
        => committed \subseteq load_state(state_file)

\* C4: when a run has ended, every candidate of the listing went through
\* the first loop whatever happened to the ones before it, the state file
\* holds exactly the identities it held at the start plus the ones published
\* in this run, and no identity of a candidate that failed at resolve,
\* download or render.
C4_PartialFailureIsolation ==
    Ended =>
        /\ \A i \in DOMAIN status : status[i] # "discovered"
        /\ load_state(state_file) = StartIds \cup committed
        /\ \A i \in DOMAIN status :
             status[i] \in PrepareFailed => UidAt(i) \notin load_state(state_file)

C4_Witness ==
    /\ outcome = Returned("done")
    /\ Len(candidates) = 3
    /\ status[1] = "Committed"
    /\ status[2] = "RenderError"
    /\ status[3] = "Committed"
    /\ load_state(state_file) = {UidAt(1), UidAt(3)}

\* A step in which the processing of some candidate fails
CandidateFails ==
    \E i \in DOMAIN status \cap DOMAIN status' :
        /\ status[i] \notin PrepareFailed \cup PublishFailed
        /\ status'[i] \in PrepareFailed \cup PublishFailed

\* C5: a step in which a candidate fails, at whatever stage, leaves the run
\* running in the same loop at the next candidate; and a run raises only at
\* the configuration assert or in one of the two git pushes.
C5_NoCandidateFailureIsFatal ==
    /\ [][CandidateFails =>
            /\ outcome' = Running
            /\ pc' \in {"prepare", "stage"}
            /\ idx' = idx + 1]_vars
    /\ [](outcome.kind = "raised" =>
            outcome.at \in {"assert", "push_images", "push_state"})

C5_Witness ==
    /\ outcome = Returned("done")
    /\ Len(candidates) = 3
    /\ status[1] \in PrepareFailed
    /\ status[2] \in PublishFailed
    /\ status[3] = "Committed"

\* C6: whenever the stage phase is about to be attempted for an item, or its
\* commit phase is, the item's image is in the pushed tree.
C6_AssetPushedBeforePublish ==
    (pc \in {"stage", "commit"} /\ idx <= Len(new_images))
        => png_path(new_images[idx].uid) \in remote.files

\* The first listing URL whose fetch and parse went through and gave at
\* least one reference, 0 when there is none
Yields(i) ==
    scan_in.ok[i] /\ parse_listing_for_docs(listing[i], SEASON_URLS[i]) # <<>>

FirstYielding ==
    IF \E i \in DOMAIN SEASON_URLS : Yields(i)
    THEN CHOOSE i \in DOMAIN SEASON_URLS :
             Yields(i) /\ \A j \in 1..(i - 1) : ~Yields(j)
    ELSE 0

\* C7 as stated: the result is the whole reference list of the first listing
\* URL that yields any, and empty when none does.
C7_ReturnsFirstYieldingListing ==
    pc = "found" =>
        candidates = IF FirstYielding = 0 THEN <<>>
                     ELSE parse_listing_for_docs(listing[FirstYielding],
                                                 SEASON_URLS[FirstYielding])

\* C7 as amended: the result is the first max_docs references, in page
\* order, of the first listing URL that yields any, and of no other URL; it
\* is empty when none yields.
C7_ListingFallback ==
    pc = "found" =>
        IF FirstYielding = 0 THEN candidates = <<>>
        ELSE LET refs == parse_listing_for_docs(listing[FirstYielding],
                                                SEASON_URLS[FirstYielding])
                 n == IF Len(refs) < scan_in.max_docs THEN Len(refs)
                      ELSE scan_in.max_docs
             IN /\ Len(candidates) = n
                /\ \A k \in 1..n : candidates[k] = refs[k]

C7_Witness ==
    /\ pc = "found"
    /\ scan_in.ok[1] /\ scan_in.ok[2]
    /\ parse_listing_for_docs(listing[1], SEASON_URLS[1]) = <<>>
    /\ Len(listing[1]) > 0
    /\ Len(parse_listing_for_docs(listing[2], SEASON_URLS[2])) = 2
    /\ scan_in.max_docs = 1
    /\ candidates = <<parse_listing_for_docs(listing[2], SEASON_URLS[2])[1]>>

\* The run has scanned and no listing URL yielded a reference
TotalScanFailure ==
    /\ "fetch_listing" \in effects
    /\ \A i \in DOMAIN SEASON_URLS : ~Yields(i)

\* C8 as stated: a run in which no listing URL yields a candidate ends with
\* a non-zero exit status and the state file and posted set as they were.
C8_ScanFailureExitsNonZero ==
    TotalScanFailure =>
        /\ ExitCode # 0
        /\ state_file = start_file
        /\ posted_ids = StartIds

\* C8 as amended: a run in which no listing URL yields a candidate returns
\* from main() at "No documents found" with exit status zero, having done
\* nothing but load the state and fetch the listings: the state file and the
\* posted set are as they were.
C8_ScanFailureEndsRun ==
    TotalScanFailure =>
        /\ outcome = Returned("no_documents")
        /\ ExitCode = 0
        /\ pc = "idle"
        /\ effects = {"load_state", "fetch_listing"}
        /\ state_file = start_file
        /\ posted_ids = StartIds

C8_Witness ==
    /\ TotalScanFailure
    /\ runNo = 2
    /\ StartIds # {}
    /\ listing[1] # <<>>
    /\ outcome = Returned("no_documents")

\* C9: a run started with IG_USER_ID, IG_ACCESS_TOKEN or GITHUB_REPOSITORY
\* unset raises at the assert and does nothing else: no load of the state, no
\* listing fetch, no push, no publish, no write of the state file.
C9_MissingConfigIsFatal ==
    (runNo >= 1 /\ ~env_ok) =>
        /\ outcome = Raised("assert")
        /\ ExitCode # 0
        /\ pc = "idle"
        /\ effects = {}
        /\ staged = {}
        /\ state_file = start_file

C9_Witness ==
    /\ runNo = 2
    /\ ~env_ok
    /\ outcome = Raised("assert")
    /\ state_file.exists
    /\ listing[1] # <<>>

\* C10: when the final git_commit_and_push raises, the local state file
\* holds every identity it held at run start and every identity published
\* in this run.
C10_PushFailureKeepsLocalState ==
    outcome = Raised("push_state") =>
        /\ state_file.exists
        /\ StartIds \cup committed \subseteq load_state(state_file)

C10_Witness ==
    /\ outcome = Raised("push_state")
    /\ StartIds # {}
    /\ committed # {}
    /\ remote.state # state_file

\* C11: at every point of every run, the state file on disk holds every
\* identity it held when the run started, and it is never deleted.
C11_PostedSetMonotone ==
    /\ start_file.exists => state_file.exists
    /\ Range(start_file.content) \subseteq Range(state_file.content)

C11_Witness ==
    /\ runNo = 2
    /\ Range(start_file.content) # {}
    /\ "save_state" \in effects
    /\ committed # {}
    /\ Range(state_file.content) = Range(start_file.content) \cup committed

\* The normal form of a locator the identity is to be derived from: the
\* fragment stripped (trailing slash and letter case are not distinguished
\* by the URLs of the model)
normalize(url) == [doc |-> url.doc, frag |-> FALSE]

\* C12: any two references of a scan whose locators are equal after
\* normalization get the same identity.
C12_EquivalentLocatorsShareIdentity ==
    pc = "found" =>
        \A i, j \in DOMAIN candidates :
            normalize(candidates[i].doc_page_url) = normalize(candidates[j].doc_page_url)
                => UidAt(i) = UidAt(j)

\* The number of calls of post_to_instagram for identity u in this run
Calls(u) == Cardinality({k \in DOMAIN post_calls : post_calls[k].uid = u})

\* Candidate i was not in the posted set and was resolved, downloaded and
\* rendered
Eligible(i) ==
    /\ UidAt(i) \notin StartIds
    /\ status[i] \in {"Rendered", "Staged", "PublishStageFailed",
                      "PublishCommitFailed", "Committed"}

\* The publish loop of the run has gone through all of new_images
PublishLoopDone ==
    \/ pc = "push_state"
    \/ pc = "stage" /\ idx > Len(new_images)
    \/ outcome.at \in {"done", "push_state"}

\* C13: in a run post_to_instagram is called at most once per identity;
\* once the publish loop is through it was called exactly once for each
\* candidate that was not posted and was rendered, and for no other; and
\* when all of those publishes succeeded the state file of the ended run
\* holds exactly the prior identities plus theirs.
C13_PublishOncePerEligible ==
    /\ \A u \in Uids : Calls(u) <= 1
    /\ PublishLoopDone =>
         \A i \in DOMAIN candidates :
             Calls(UidAt(i)) = IF Eligible(i) THEN 1 ELSE 0
    /\ ( /\ Ended
         /\ outcome.at \in {"done", "push_state"}
         /\ \A i \in DOMAIN candidates : Eligible(i) => status[i] = "Committed" )
         => load_state(state_file) =
                StartIds \cup {UidAt(i) : i \in {j \in DOMAIN candidates : Eligible(j)}}

C13_Witness ==
    /\ outcome = Returned("done")
    /\ StartIds # {}
    /\ status = <<"already_posted", "Committed", "Committed">>
    /\ Len(post_calls) = 2
    /\ Cardinality(load_state(state_file)) = 3

\* C14: a candidate whose identity was in the posted set when the run
\* started is never resolved, downloaded, rendered or published in that run;
\* a run all of whose candidates are in the posted set performs no detail
\* fetch, download, render, push or publish and leaves the posted set and
\* the state file as they were.
C14_PostedCandidateIsSkipped ==
    /\ \A i \in DOMAIN candidates :
         UidAt(i) \in StartIds =>
             /\ status[i] \in {"discovered", "already_posted"}
             /\ UidAt(i) \notin Range(new_ids)
             /\ Calls(UidAt(i)) = 0
    /\ (candidates # <<>> /\ \A i \in DOMAIN candidates : UidAt(i) \in StartIds) =>
             /\ effects \subseteq {"load_state", "fetch_listing"}
             /\ posted_ids = StartIds
             /\ state_file = start_file

C14_Witness ==
    /\ outcome = Returned("done")
    /\ Len(candidates) = 3
    /\ UidAt(1) \in StartIds /\ status[1] = "already_posted"
    /\ UidAt(2) \notin StartIds /\ status[2] = "Committed"
    /\ UidAt(3) \in StartIds /\ status[3] = "already_posted"
    /\ post_calls = <<[uid |-> UidAt(2), has_id |-> TRUE, commit |-> "ok"]>>

\* C15: the commit phase of a call is attempted only when its stage phase
\* returned a creation id; while the commit phase is pending the call is the
\* one for the current item; and every identity added to the posted set in
\* the run had both phases of its call succeed.
C15_TwoPhasePublish ==
    /\ \A k \in DOMAIN post_calls :
         post_calls[k].commit # "none" => post_calls[k].has_id
    /\ pc = "commit" =>
         /\ post_calls # <<>>
         /\ post_calls[Len(post_calls)] =
                [uid |-> new_images[idx].uid, has_id |-> TRUE, commit |-> "none"]
    /\ posted_ids \ StartIds \subseteq
         {post_calls[k].uid : k \in {j \in DOMAIN post_calls :
                                       post_calls[j].has_id /\ post_calls[j].commit = "ok"}}

C15_Witness ==
    /\ Len(post_calls) = 3
    /\ ~post_calls[1].has_id /\ post_calls[1].commit = "none"
    /\ post_calls[2].has_id /\ post_calls[2].commit = "failed"
    /\ post_calls[3].has_id /\ post_calls[3].commit = "ok"
    /\ posted_ids \ StartIds = {post_calls[3].uid}
    /\ pc = "push_state"

\* C16: a candidate whose processing failed in a run is not added to the
\* posted set or to the state file, had at most one publish call in that run
\* (none when it failed before the publish loop), and in a run that follows
\* a run to the end of main() every candidate that failed there is not
\* skipped but processed again from the detail-page fetch.
C16_FailedCandidateRetriedNextRun ==
    /\ \A i \in DOMAIN status :
         status[i] \in PrepareFailed \cup PublishFailed =>
             /\ UidAt(i) \notin posted_ids
             /\ UidAt(i) \notin Range(state_file.content)
             /\ Calls(UidAt(i)) = IF status[i] \in PrepareFailed THEN 0 ELSE 1
    /\ prev.saved =>
         \A i \in DOMAIN status :
             UidAt(i) \in prev.failed =>
                 /\ UidAt(i) \notin StartIds
                 /\ status[i] # "already_posted"
                 /\ status[i] # "discovered" => "fetch_detail" \in effects

C16_Witness ==
    /\ runNo = 2
    /\ prev.saved
    /\ Len(candidates) = 3
    /\ prev.failed = {UidAt(1), UidAt(2), UidAt(3)}
    /\ status = <<"Committed", "PublishCommitFailed", "FetchError">>
    /\ outcome = Returned("done")

\* An anchor that parse_listing_for_docs takes as a document reference
Qualifies(a) == a.href.kind = "doc" /\ a.text # ""

\* The positions on the page of the first occurrence of each locator
FirstOccurrences(page, base_url) ==
    {p \in DOMAIN page :
        /\ Qualifies(page[p])
        /\ \A q \in 1..(p - 1) :
             Qualifies(page[q]) =>
                 urljoin(base_url, page[q].href) # urljoin(base_url, page[p].href)}

\* C17: the sequence parse_listing_for_docs returns holds no locator twice,
\* and it is the references of the page at the first occurrence of each
\* locator, in page order.
C17_ScanDedupKeepsOrder ==
    pc = "parsed" =>
        LET first == FirstOccurrences(listing[1], SEASON_URLS[1])
            nth(k) == CHOOSE p \in first :
                          Cardinality({q \in first : q <= p}) = k
        IN /\ \A i, j \in DOMAIN candidates :
                 i # j => candidates[i].doc_page_url # candidates[j].doc_page_url
           /\ Len(candidates) = Cardinality(first)
           /\ \A k \in DOMAIN candidates :
                 /\ candidates[k].doc_page_url =
                        urljoin(SEASON_URLS[1], listing[1][nth(k)].href)
                 /\ candidates[k].title = listing[1][nth(k)].text

C17_Witness ==
    /\ pc = "parsed"
    /\ Len(listing[1]) = 3
    /\ listing[1][1].href = [kind |-> "doc", doc |-> 2, style |-> "rel"]
    /\ listing[1][2].href = [kind |-> "doc", doc |-> 1, style |-> "abs"]
    /\ listing[1][3].href = [kind |-> "doc", doc |-> 2, style |-> "abs"]
    /\ Len(candidates) = 2
    /\ candidates[1].doc_page_url = [doc |-> 2, frag |-> FALSE]
    /\ candidates[2].doc_page_url = [doc |-> 1, frag |-> FALSE]

\* C19: a run whose first git_commit_and_push failed (git add or git push
\* exited non-zero) has ended by raising there, with no call of
\* post_to_instagram and the state file as it was at run start.
C19_ImagePushFailureAborts ==
    "images_push_failed" \in effects =>
        /\ outcome = Raised("push_images")
        /\ ExitCode # 0
        /\ pc = "idle"
        /\ post_calls = <<>>
        /\ staged = {}
        /\ "save_state" \notin effects
        /\ state_file = start_file

C19_Witness ==
    /\ "images_push_failed" \in effects
    /\ outcome = Raised("push_images")
    /\ runNo = 2
    /\ StartIds # {}
    /\ Len(new_images) = 2


\* ---------------------------------------------------------------------
\* fia_instagram_bot.py: the single-post variant
\* ---------------------------------------------------------------------

MaxBotRuns == 3
MaxBotRows == 3
BotDocs == 1..2

\* an href ending in ".pdf": the document it names, and whether the
\* attribute value starts with white space
BotUrls == [doc : BotDocs, ws : BOOLEAN]

\* a table row of the documents page
BotRows ==
    [kind : {"pdf"}, url : BotUrls]
        \cup {[kind |-> "other", url |-> [doc |-> 1, ws |-> FALSE]],
              [kind |-> "short", url |-> [doc |-> 1, ws |-> FALSE]],
              [kind |-> "nolink", url |-> [doc |-> 1, ws |-> FALSE]]}

BotPagesUpTo(n) == UNION {[1..k -> BotRows] : k \in 0..n}

\* str.strip()
strip(l) == [l EXCEPT !.ws = FALSE]

\* posted = set(l.strip() for l in f)
read_posted(lines) == {strip(lines[i]) : i \in 1..Len(lines)}

\* the open(..., "a") write of the url and a newline
append_posted(lines, url) == Append(lines, url)

RECURSIVE get_docs_from(_, _)
get_docs_from(rows, i) ==
    IF i > Len(rows) THEN <<>>
    ELSE IF rows[i].kind = "pdf"
         THEN <<rows[i].url>> \o get_docs_from(rows, i + 1)
         ELSE get_docs_from(rows, i + 1)

\* get_docs: the rows in page order; a row of three cells whose first cell
\* has no link raises on link['href']
get_docs(rows) ==
    [raised |-> \E i \in 1..Len(rows) : rows[i].kind = "nolink",
     docs |-> get_docs_from(rows, 1)]

\* the first doc of the loop that passes `doc["url"] not in posted`; 0 if none
first_unposted(docs, posted) ==
    IF \E i \in 1..Len(docs) : docs[i] \notin posted
    THEN CHOOSE i \in 1..Len(docs) :
            /\ docs[i] \notin posted
            /\ \A j \in 1..(i - 1) : docs[j] \in posted
    ELSE 0

mainvars == <<listing, env_ok, state_file, out_files, head, remote, pc,
              posted_ids, candidates, idx, new_images, new_ids, scan_in, runNo,
              outcome, start_file, prev, effects, status, staged, committed,
              post_calls, pubCount>>

InitBot ==
    /\ listing = <<<<>>, <<>>>>
    /\ env_ok = TRUE
    /\ state_file = NoFile
    /\ out_files = {}
    /\ head = EmptyTree
    /\ remote = EmptyTree
    /\ pc = "idle"
    /\ posted_ids = {}
    /\ candidates = <<>>
    /\ idx = 0
    /\ new_images = <<>>
    /\ new_ids = {}
    /\ scan_in = NoScan
    /\ runNo = 0
    /\ outcome = [kind |-> "none", at |-> "none"]
    /\ start_file = NoFile
    /\ prev = NoRun
    /\ effects = {}
    /\ status = [u \in Uids |-> "none"]
    /\ staged = {}
    /\ committed = {}
    /\ post_calls = <<>>
    /\ pubCount = [u \in Uids |-> 0]
    /\ \E rows \in BotPagesUpTo(MaxBotRows) : bot = [NoBot EXCEPT !.rows = rows]

\* main of fia_instagram_bot.py up to the loop's test: read posted.txt, fetch
\* and parse the page, find the first doc that is not in posted
bot_main_start ==
    /\ bot.pc = "idle"
    /\ bot.runs < MaxBotRuns
    /\ \E fetched \in BOOLEAN :
        LET posted == read_posted(bot.posted_txt)
            got == get_docs(bot.rows)
            i == first_unposted(got.docs, posted)
        IN  IF ~fetched \/ got.raised
            THEN bot' = [bot EXCEPT !.runs = @ + 1, !.clean = FALSE,
                                    !.run_published = 0]
            ELSE bot' = [bot EXCEPT !.runs = @ + 1, !.posted = posted,
                                    !.docs = got.docs, !.cur = i,
                                    !.run_published = 0,
                                    !.pc = IF i = 0 THEN "idle" ELSE "publish"]
    /\ UNCHANGED mainvars

\* convert_pdf_to_img and post_to_instagram for the doc found; either raises
\* out of main
bot_publish ==
    /\ bot.pc = "publish"
    /\ \E r \in {"convert_failed", "post_failed", "ok"} :
        IF r = "ok"
        THEN bot' = [bot EXCEPT !.published = Append(@, bot.docs[bot.cur]),
                                !.run_published = @ + 1,
                                !.pc = "append"]
        ELSE bot' = [bot EXCEPT !.clean = FALSE, !.pc = "idle"]
    /\ UNCHANGED mainvars

\* the append to posted.txt, then break
bot_append ==
    /\ bot.pc = "append"
    /\ bot' = [bot EXCEPT
                 !.posted_txt = append_posted(@, bot.docs[bot.cur]),
                 !.pc = "idle"]
    /\ UNCHANGED mainvars

\* the process is killed between two steps
bot_crash ==
    /\ bot.pc \in {"publish", "append"}
    /\ bot' = [bot EXCEPT !.clean = FALSE, !.pc = "idle"]
    /\ UNCHANGED mainvars

NextBot ==
    \/ bot_main_start
    \/ bot_publish
    \/ bot_append
    \/ bot_crash

SpecBot == InitBot /\ [][NextBot]_vars

RECURSIVE distinct_from(_, _, _)
distinct_from(docs, i, seen) ==
    IF i > Len(docs) THEN <<>>
    ELSE IF strip(docs[i]) \in seen
         THEN distinct_from(docs, i + 1, seen)
         ELSE <<docs[i]>> \o distinct_from(docs, i + 1, seen \cup {strip(docs[i])})

\* the listed documents, each once, in listing order
ListedOnce == distinct_from(get_docs(bot.rows).docs, 1, {})

BotMin(a, b) == IF a < b THEN a ELSE b

\* C18: a run of the single-post variant publishes at most one document, its
\* URL is appended to posted.txt only after the publish returned, and while
\* every run so far has returned normally against the unchanged listing, the
\* documents published are the listed documents, each once, in listing order,
\* one per run
C18_SinglePostPerRunInOrder ==
    /\ bot.run_published <= 1
    /\ \A i \in 1..Len(bot.posted_txt) :
          \E j \in 1..Len(bot.published) : bot.published[j] = bot.posted_txt[i]
    /\ (bot.clean /\ bot.pc = "idle") =>
          bot.published = Take(ListedOnce, BotMin(bot.runs, Len(ListedOnce)))

====
